---- MODULE Spec2Model ----
(***************************************************************************)
(* Model of cmd/cli.go of colorquant: the table of error-diffusion         *)
(* kernels, the command-line run (main), file.Open, file.Quantify and the  *)
(* progress goroutine.                                                     *)
(*                                                                         *)
(* The library call colorquant.Dither.Quantize, the image decoders and     *)
(* encoders and the file system are outside this file: their outcomes      *)
(* (success or failure) are chosen nondeterministically.                   *)
(***************************************************************************)
EXTENDS Integers, Sequences, FiniteSets, TLC

\* ---------------------------------------------------------------- bounds
\* numColors is drawn from -MaxNeg..MaxColors, plus the flag's default.
MaxColors == 3
MaxNeg == 1

\* --------------------------------------------------- program constants
\* default of the -palette flag
DefaultPalette == 256
\* float32 keeps 23 explicit mantissa bits
MantissaBits == 23

\* ------------------------------------------------ float32 kernel weights
\* Weights are float32 values.  Every weight of the table is 0 or lies in
\* [2^-6, 1], so every float32 weight is a multiple of 2^-(23+6); a weight
\* is represented by that integer multiple.
Unit == 2 ^ (MantissaBits + 6)

\* least k with n * 2^k >= d, i.e. n/d lies in [2^-k, 2^-(k-1))
RECURSIVE Exponent(_, _, _)
Exponent(n, d, k) ==
    IF n >= d THEN k ELSE Exponent(2 * n, d, k + 1)

\* binary long division: <<floor(r0 * 2^bits / d) + q0 * 2^bits, remainder>>
RECURSIVE LongDiv(_, _, _, _)
LongDiv(r, d, q, bits) ==
    IF bits = 0 THEN <<q, r>>
    ELSE IF 2 * r >= d THEN LongDiv(2 * r - d, d, 2 * q + 1, bits - 1)
         ELSE LongDiv(2 * r, d, 2 * q, bits - 1)

\* The untyped constant n.0 / d.0 converted to float32 (round to nearest,
\* ties to even), as a multiple of 1/Unit.
F32(n, d) ==
    IF n = 0 THEN 0
    ELSE LET k  == Exponent(n, d, 0)
             qr == LongDiv(n % d, d, n \div d, MantissaBits + k)
             m  == IF 2 * qr[2] > d \/ (2 * qr[2] = d /\ qr[1] % 2 = 1)
                   THEN qr[1] + 1 ELSE qr[1]
         IN  m * 2 ^ (6 - k)

\* A table whose Burkes entry has no fourth row and whose Stucki entry has
\* one weight over the wrong denominator.
dither_shape ==
    "FloydSteinberg" :> << <<0, 0, 0, F32(7, 48), F32(5, 48)>>,
                           <<F32(3, 48), F32(5, 48), F32(7, 48), F32(5, 48), F32(3, 48)>>,
                           <<F32(1, 48), F32(3, 48), F32(5, 48), F32(3, 48), F32(1, 48)>> >>
 @@ "Burkes"         :> << <<0, 0, 0, F32(8, 32), F32(4, 32)>>,
                           <<F32(2, 32), F32(4, 32), F32(8, 32), F32(4, 32), F32(2, 32)>>,
                           <<0, 0, 0, 0, 0>> >>
 @@ "Stucki"         :> << <<0, 0, 0, F32(8, 42), F32(4, 42)>>,
                           <<F32(2, 42), F32(4, 42), F32(8, 32), F32(4, 42), F32(2, 42)>>,
                           <<F32(1, 42), F32(2, 42), F32(4, 42), F32(2, 42), F32(1, 42)>> >>
 @@ "Atkinson"       :> << <<0, 0, F32(1, 8), F32(1, 8)>>,
                           <<F32(1, 8), F32(1, 8), F32(1, 8), 0>>,
                           <<0, F32(1, 8), 0, 0>> >>
 @@ "Sierra-3"       :> << <<0, 0, 0, F32(5, 32), F32(3, 32)>>,
                           <<F32(2, 32), F32(4, 32), F32(5, 32), F32(4, 32), F32(2, 32)>>,
                           <<0, F32(2, 32), F32(3, 32), F32(2, 32), 0>> >>
 @@ "Sierra-2"       :> << <<0, 0, 0, F32(4, 16), F32(3, 16)>>,
                           <<F32(1, 16), F32(2, 16), F32(3, 16), F32(2, 16), F32(1, 16)>>,
                           <<0, 0, 0, 0, 0>> >>
 @@ "Sierra-Lite"    :> << <<0, 0, F32(2, 4)>>,
                           <<F32(1, 4), F32(1, 4), 0>>,
                           <<0, 0, 0>> >>

\* A table whose Sierra-Lite first row diffuses into the cell before the
\* current pixel.
dither_backward ==
    "FloydSteinberg" :> << <<0, 0, 0, F32(7, 48), F32(5, 48)>>,
                           <<F32(3, 48), F32(5, 48), F32(7, 48), F32(5, 48), F32(3, 48)>>,
                           <<F32(1, 48), F32(3, 48), F32(5, 48), F32(3, 48), F32(1, 48)>> >>
 @@ "Burkes"         :> << <<0, 0, 0, F32(8, 32), F32(4, 32)>>,
                           <<F32(2, 32), F32(4, 32), F32(8, 32), F32(4, 32), F32(2, 32)>>,
                           <<0, 0, 0, 0, 0>>,
                           <<F32(4, 32), F32(8, 32), 0, 0, 0>> >>
 @@ "Stucki"         :> << <<0, 0, 0, F32(8, 42), F32(4, 42)>>,
                           <<F32(2, 42), F32(4, 42), F32(8, 42), F32(4, 42), F32(2, 42)>>,
                           <<F32(1, 42), F32(2, 42), F32(4, 42), F32(2, 42), F32(1, 42)>> >>
 @@ "Atkinson"       :> << <<0, 0, F32(1, 8), F32(1, 8)>>,
                           <<F32(1, 8), F32(1, 8), F32(1, 8), 0>>,
                           <<0, F32(1, 8), 0, 0>> >>
 @@ "Sierra-3"       :> << <<0, 0, 0, F32(5, 32), F32(3, 32)>>,
                           <<F32(2, 32), F32(4, 32), F32(5, 32), F32(4, 32), F32(2, 32)>>,
                           <<0, F32(2, 32), F32(3, 32), F32(2, 32), 0>> >>
 @@ "Sierra-2"       :> << <<0, 0, 0, F32(4, 16), F32(3, 16)>>,
                           <<F32(1, 16), F32(2, 16), F32(3, 16), F32(2, 16), F32(1, 16)>>,
                           <<0, 0, 0, 0, 0>> >>
 @@ "Sierra-Lite"    :> << <<F32(2, 4), 0, 0>>,
                           <<F32(1, 4), F32(1, 4), 0>>,
                           <<0, 0, 0>> >>

\* var dither map[string]colorquant.Dither: name -> rows of float32 weights
dither ==
    "FloydSteinberg" :> << <<0, 0, 0, F32(7, 48), F32(5, 48)>>,
                           <<F32(3, 48), F32(5, 48), F32(7, 48), F32(5, 48), F32(3, 48)>>,
                           <<F32(1, 48), F32(3, 48), F32(5, 48), F32(3, 48), F32(1, 48)>> >>
 @@ "Burkes"         :> << <<0, 0, 0, F32(8, 32), F32(4, 32)>>,
                           <<F32(2, 32), F32(4, 32), F32(8, 32), F32(4, 32), F32(2, 32)>>,
                           <<0, 0, 0, 0, 0>>,
                           <<F32(4, 32), F32(8, 32), 0, 0, 0>> >>
 @@ "Stucki"         :> << <<0, 0, 0, F32(8, 42), F32(4, 42)>>,
                           <<F32(2, 42), F32(4, 42), F32(8, 42), F32(4, 42), F32(2, 42)>>,
                           <<F32(1, 42), F32(2, 42), F32(4, 42), F32(2, 42), F32(1, 42)>> >>
 @@ "Atkinson"       :> << <<0, 0, F32(1, 8), F32(1, 8)>>,
                           <<F32(1, 8), F32(1, 8), F32(1, 8), 0>>,
                           <<0, F32(1, 8), 0, 0>> >>
 @@ "Sierra-3"       :> << <<0, 0, 0, F32(5, 32), F32(3, 32)>>,
                           <<F32(2, 32), F32(4, 32), F32(5, 32), F32(4, 32), F32(2, 32)>>,
                           <<0, F32(2, 32), F32(3, 32), F32(2, 32), 0>> >>
 @@ "Sierra-2"       :> << <<0, 0, 0, F32(4, 16), F32(3, 16)>>,
                           <<F32(1, 16), F32(2, 16), F32(3, 16), F32(2, 16), F32(1, 16)>>,
                           <<0, 0, 0, 0, 0>> >>
 @@ "Sierra-Lite"    :> << <<0, 0, F32(2, 4)>>,
                           <<F32(1, 4), F32(1, 4), 0>>,
                           <<0, 0, 0>> >>

\* the zero value of colorquant.Dither (no kernel resolved)
NoKernel == << >>

\* ------------------------------------------------------------ the state
VARIABLES
    hasInput,      \* os.Args[1] is present and is not a help flag
    ditherer,      \* -ditherer
    imageType,     \* -type
    noDither,      \* -no-dither
    numColors,     \* -palette
    pc,            \* position of main (inside Quantify: "q_...")
    img,           \* result of input.Open(): "unset", "nil" or "image"
    kernName,      \* key under which Quantify found its kernel, or "none"
    kern,          \* the local ditherer of Quantify (line 130)
    quant,         \* the local quant of Quantify: "nil" or "image"
    outName,       \* output argument of Quantify: <<base, extension>>
    fileCreated,   \* os.Create(output) has created the output file
    qRet,          \* what Quantify returned: [returned, image, err]
    quantizeCalls, \* number of calls of the library's Quantize
    sends,         \* number of completed sends on done
    failures,      \* the failures that have occurred so far
    terminatedBy,  \* how the process ended, "none" while it runs
    doneReported,  \* "Done" has been printed
    gpc,           \* position of the progress goroutine
    ticker,        \* "none", "running" or "stopped"
    tickPending    \* a tick waits in ticker.C (capacity 1)

flags == <<hasInput, ditherer, imageType, noDither, numColors>>
qvars == <<kernName, kern, quant, outName, fileCreated, qRet, quantizeCalls>>
gvars == <<gpc, ticker, tickPending>>
vars  == <<hasInput, ditherer, imageType, noDither, numColors, pc, img,
           kernName, kern, quant, outName, fileCreated, qRet, quantizeCalls,
           sends, failures, terminatedBy, doneReported, gpc, ticker,
           tickPending>>

\* the values tried for the flags
DithererNames == DOMAIN dither \cup {"Bayer", "JarvisJudiceNinke"}
ImageTypes    == {"jpg", "png", "gif"}
PaletteSizes  == ((0 - MaxNeg)..MaxColors) \cup {DefaultPalette}

Running == terminatedBy = "none"

\* log.Fatal: print and os.Exit(1); every goroutine dies with the process
Fatal(who, why) ==
    /\ terminatedBy' = who
    /\ failures' = failures \cup {why}
    /\ pc' = "exit"

Init ==
    /\ hasInput \in BOOLEAN
    /\ ditherer \in DithererNames
    /\ imageType \in ImageTypes
    /\ noDither \in BOOLEAN
    /\ numColors \in PaletteSizes
    /\ pc = "args"
    /\ img = "unset"
    /\ kernName = "none"
    /\ kern = NoKernel
    /\ quant = "nil"
    /\ outName = << >>
    /\ fileCreated = FALSE
    /\ qRet = [returned |-> FALSE, image |-> "nil", err |-> FALSE]
    /\ quantizeCalls = 0
    /\ sends = 0
    /\ failures = {}
    /\ terminatedBy = "none"
    /\ doneReported = FALSE
    /\ gpc = "none"
    /\ ticker = "none"
    /\ tickPending = FALSE

\* ------------------------------------------------------------- main
\* main, lines 164-170: without an input argument print the usage, exit 1
ParseArgs ==
    /\ Running /\ pc = "args"
    /\ IF hasInput
       THEN /\ pc' = "open"
            /\ UNCHANGED terminatedBy
       ELSE /\ pc' = "exit"
            /\ terminatedBy' = "usage"
    /\ UNCHANGED <<flags, img, qvars, sends, failures, doneReported, gvars>>

\* file.Open called at line 175: the error is assigned to _
Open ==
    /\ Running /\ pc = "open"
    /\ \E ok \in BOOLEAN :
         IF ok
         THEN /\ img' = "image"
              /\ UNCHANGED failures
         ELSE /\ img' = "nil"
              /\ failures' = failures \cup {"open"}
    /\ pc' = "validate"
    /\ UNCHANGED <<flags, qvars, sends, terminatedBy, doneReported, gvars>>

\* main, lines 178-180
ValidatePalette ==
    /\ Running /\ pc = "validate"
    /\ IF numColors <= 1
       THEN Fatal("main-fatal", "palette")
       ELSE /\ pc' = "dir"
            /\ UNCHANGED <<terminatedBy, failures>>
    /\ UNCHANGED <<flags, img, qvars, sends, doneReported, gvars>>

\* main, lines 182-194: filepath.Abs may fail; the results of Mkdir and
\* Chdir are not looked at
PrepareDir ==
    /\ Running /\ pc = "dir"
    /\ \E ok \in BOOLEAN :
         IF ok
         THEN /\ pc' = "progress"
              /\ UNCHANGED <<terminatedBy, failures>>
         ELSE Fatal("main-fatal", "abs")
    /\ UNCHANGED <<flags, img, qvars, sends, doneReported, gvars>>

\* progress(done), lines 224-237: start the ticker and the goroutine
progress ==
    /\ Running /\ pc = "progress"
    /\ ticker' = "running"
    /\ gpc' = "select"
    /\ pc' = "process"
    /\ UNCHANGED <<flags, img, qvars, sends, failures, terminatedBy,
                   doneReported, tickPending>>

\* main, lines 200-213: the switch on imageType that calls Quantify
Process ==
    /\ Running /\ pc = "process"
    /\ IF imageType \in {"jpg", "png"}
       THEN /\ outName' = <<IF noDither THEN "output" ELSE ditherer, imageType>>
            /\ pc' = "q_entry"
       ELSE /\ pc' = "send"
            /\ UNCHANGED outName
    /\ UNCHANGED <<flags, img, kernName, kern, quant, fileCreated, qRet,
                   quantizeCalls, sends, failures, terminatedBy,
                   doneReported, gvars>>

\* ---------------------------------------------------------- Quantify
\* Quantify, line 121: src.Bounds() on a nil image panics
QuantifyBounds ==
    /\ Running /\ pc = "q_entry"
    /\ IF img = "nil"
       THEN /\ terminatedBy' = "panic"
            /\ pc' = "exit"
       ELSE /\ pc' = "q_quantize"
            /\ UNCHANGED terminatedBy
    /\ UNCHANGED <<flags, img, qvars, sends, failures, doneReported, gvars>>

\* Quantize is called although the name was not found in the table.
QuantifyQuantize_nocheck ==
    /\ Running /\ pc = "q_quantize"
    /\ IF noDither \/ ditherer \notin DOMAIN dither
       THEN UNCHANGED <<kernName, kern>>
       ELSE /\ kernName' = ditherer
            /\ kern' = dither[ditherer]
    /\ quant' = "image"
    /\ quantizeCalls' = quantizeCalls + 1
    /\ pc' = "q_create"
    /\ UNCHANGED <<terminatedBy, failures>>
    /\ UNCHANGED <<flags, img, outName, fileCreated, qRet, sends,
                   doneReported, gvars>>

\* Quantify, lines 122-132
QuantifyQuantize ==
    /\ Running /\ pc = "q_quantize"
    /\ IF noDither
       THEN /\ quant' = "image"
            /\ quantizeCalls' = quantizeCalls + 1
            /\ pc' = "q_create"
            /\ UNCHANGED <<kernName, kern, terminatedBy, failures>>
       ELSE IF ditherer \notin DOMAIN dither
            THEN /\ Fatal("quantify-fatal", "kernel")
                 /\ UNCHANGED <<kernName, kern, quant, quantizeCalls>>
            ELSE /\ kernName' = ditherer
                 /\ kern' = dither[ditherer]
                 /\ quant' = "image"
                 /\ quantizeCalls' = quantizeCalls + 1
                 /\ pc' = "q_create"
                 /\ UNCHANGED <<terminatedBy, failures>>
    /\ UNCHANGED <<flags, img, outName, fileCreated, qRet, sends,
                   doneReported, gvars>>

\* The quantized image is returned together with the error.
QuantifyCreate_leak ==
    /\ Running /\ pc = "q_create"
    /\ \E ok \in BOOLEAN :
         IF ok
         THEN /\ fileCreated' = TRUE
              /\ pc' = "q_encode"
              /\ UNCHANGED <<qRet, failures>>
         ELSE /\ qRet' = [returned |-> TRUE, image |-> quant, err |-> TRUE]
              /\ failures' = failures \cup {"create"}
              /\ pc' = "send"
              /\ UNCHANGED fileCreated
    /\ UNCHANGED <<flags, img, kernName, kern, quant, outName, quantizeCalls,
                   sends, terminatedBy, doneReported, gvars>>

\* Quantify, lines 134-138
QuantifyCreate ==
    /\ Running /\ pc = "q_create"
    /\ \E ok \in BOOLEAN :
         IF ok
         THEN /\ fileCreated' = TRUE
              /\ pc' = "q_encode"
              /\ UNCHANGED <<qRet, failures>>
         ELSE /\ qRet' = [returned |-> TRUE, image |-> "nil", err |-> TRUE]
              /\ failures' = failures \cup {"create"}
              /\ pc' = "send"
              /\ UNCHANGED fileCreated
    /\ UNCHANGED <<flags, img, kernName, kern, quant, outName, quantizeCalls,
                   sends, terminatedBy, doneReported, gvars>>

\* Quantify, lines 140-152: imageType is "jpg" or "png" here
QuantifyEncode ==
    /\ Running /\ pc = "q_encode"
    /\ \E ok \in BOOLEAN :
         IF ok
         THEN /\ qRet' = [returned |-> TRUE, image |-> quant, err |-> FALSE]
              /\ pc' = "send"
              /\ UNCHANGED <<terminatedBy, failures>>
         ELSE /\ Fatal("quantify-fatal", "encode")
              /\ UNCHANGED qRet
    /\ UNCHANGED <<flags, img, kernName, kern, quant, outName, fileCreated,
                   quantizeCalls, sends, doneReported, gvars>>

\* ------------------------------------------- done channel and goroutine
\* main line 214 with progress line 232: the send on the unbuffered channel
\* completes together with the goroutine's receive in its select
SendDone ==
    /\ Running /\ pc = "send" /\ gpc = "select"
    /\ sends' = sends + 1
    /\ pc' = "report"
    /\ gpc' = "stop"
    /\ UNCHANGED <<flags, img, qvars, failures, terminatedBy, doneReported,
                   ticker, tickPending>>

\* main, lines 217-221: print "Done" and return from main
ReportDone ==
    /\ Running /\ pc = "report"
    /\ doneReported' = TRUE
    /\ terminatedBy' = "main-return"
    /\ pc' = "exit"
    /\ UNCHANGED <<flags, img, qvars, sends, failures, gvars>>

\* the runtime's ticker puts a tick into ticker.C unless one is waiting
TickerFire ==
    /\ Running /\ ticker = "running" /\ ~tickPending
    /\ tickPending' = TRUE
    /\ UNCHANGED <<flags, pc, img, qvars, sends, failures, terminatedBy,
                   doneReported, gpc, ticker>>

\* The goroutine leaves its loop after a tick.
GoroutineTick_break ==
    /\ Running /\ gpc = "select" /\ tickPending
    /\ tickPending' = FALSE
    /\ gpc' = "returned"
    /\ UNCHANGED <<flags, pc, img, qvars, sends, failures, terminatedBy,
                   doneReported, ticker>>

\* progress, line 230: case <-ticker.C
GoroutineTick ==
    /\ Running /\ gpc = "select" /\ tickPending
    /\ tickPending' = FALSE
    /\ gpc' = "print"
    /\ UNCHANGED <<flags, pc, img, qvars, sends, failures, terminatedBy,
                   doneReported, ticker>>

\* progress, line 231: fmt.Print(".") and back to the select
GoroutinePrint ==
    /\ Running /\ gpc = "print"
    /\ gpc' = "select"
    /\ UNCHANGED <<flags, pc, img, qvars, sends, failures, terminatedBy,
                   doneReported, ticker, tickPending>>

\* progress, line 233: ticker.Stop() and back to the select
GoroutineStop ==
    /\ Running /\ gpc = "stop"
    /\ ticker' = "stopped"
    /\ gpc' = "select"
    /\ UNCHANGED <<flags, pc, img, qvars, sends, failures, terminatedBy,
                   doneReported, tickPending>>

MainStep ==
    \/ ParseArgs
    \/ Open
    \/ ValidatePalette
    \/ PrepareDir
    \/ progress
    \/ Process
    \/ QuantifyBounds
    \/ QuantifyQuantize
    \/ QuantifyCreate
    \/ QuantifyEncode
    \/ ReportDone

Next ==
    \/ ParseArgs
    \/ Open
    \/ ValidatePalette
    \/ PrepareDir
    \/ progress
    \/ Process
    \/ QuantifyBounds
    \/ QuantifyQuantize
    \/ QuantifyCreate
    \/ QuantifyEncode
    \/ SendDone
    \/ ReportDone
    \/ TickerFire
    \/ GoroutineTick
    \/ GoroutinePrint
    \/ GoroutineStop

Spec == Init /\ [][Next]_vars

\* The Go scheduler runs every runnable goroutine, and a select with several
\* ready cases picks one at random, so the receive from done is not passed
\* over for ever.
FairSpec ==
    /\ Spec
    /\ WF_vars(MainStep)
    /\ WF_vars(GoroutinePrint)
    /\ WF_vars(GoroutineStop)
    /\ SF_vars(SendDone)

TypeOK ==
    /\ pc \in {"args", "open", "validate", "dir", "progress", "process",
               "q_entry", "q_quantize", "q_create", "q_encode", "send",
               "report", "exit"}
    /\ img \in {"unset", "nil", "image"}
    /\ kernName \in DOMAIN dither \cup {"none"}
    /\ quant \in {"nil", "image"}
    /\ quantizeCalls \in 0..1
    /\ sends \in 0..1
    /\ terminatedBy \in {"none", "usage", "main-fatal", "quantify-fatal",
                         "panic", "main-return"}
    /\ gpc \in {"none", "select", "print", "stop", "returned"}
    /\ ticker \in {"none", "running", "stopped"}
    /\ tickPending \in BOOLEAN

\* ------------------------------------------------ properties of kernels
RECURSIVE SumSeq(_)
SumSeq(row) == IF row = << >> THEN 0 ELSE Head(row) + SumSeq(Tail(row))

RECURSIVE KernelSum(_)
KernelSum(k) == IF k = << >> THEN 0 ELSE SumSeq(Head(k)) + KernelSum(Tail(k))

Dist(a, b) == IF a >= b THEN a - b ELSE b - a

\* 1e-6, rounded down to a multiple of 1/Unit
Tolerance == Unit \div 1000000

SevenNames == {"FloydSteinberg", "Burkes", "Stucki", "Atkinson",
               "Sierra-3", "Sierra-2", "Sierra-Lite"}

\* <<rows, columns, denominator>> as documented for each kernel
StatedShape ==
    "FloydSteinberg" :> <<3, 5, 48>>
 @@ "Burkes"         :> <<4, 5, 32>>
 @@ "Stucki"         :> <<3, 5, 42>>
 @@ "Atkinson"       :> <<3, 4, 8>>
 @@ "Sierra-3"       :> <<3, 5, 32>>
 @@ "Sierra-2"       :> <<3, 5, 16>>
 @@ "Sierra-Lite"    :> <<3, 3, 4>>

Resolved == kernName # "none"

\* states from "Rendering image..." (line 194) on
RenderingStarted == pc = "progress" \/ gpc # "none"

\* states after the check of numColors (line 178)
Validated == hasInput /\ pc \notin {"args", "open", "validate"}

\* C1: the weights of the kernel Quantify resolves sum to 1.0 within 1e-6,
\* except Atkinson's, which sum to 6/8; Atkinson is the only kernel of the
\* table whose weights do not sum to 1.
C1_WeightsSumToOne ==
    Resolved =>
        IF kernName = "Atkinson"
        THEN KernelSum(kern) = 6 * (Unit \div 8)
        ELSE Dist(KernelSum(kern), Unit) <= Tolerance

\* C2: the table has exactly the seven documented names, and the kernel
\* found under a name is a rectangular matrix of the documented shape whose
\* every weight is an integer numerator over the documented denominator.
C2_TableContract ==
    /\ DOMAIN dither = SevenNames
    /\ "kernel" \in failures => ditherer \notin SevenNames
    /\ Resolved =>
         /\ kernName \in SevenNames
         /\ LET shape == StatedShape[kernName] IN
              /\ Len(kern) = shape[1]
              /\ \A r \in 1..Len(kern) :
                   /\ Len(kern[r]) = shape[2]
                   /\ \A c \in 1..Len(kern[r]) :
                        \E n \in 0..shape[3] : kern[r][c] = F32(n, shape[3])

C2_Witness ==
    /\ kernName = "Burkes" /\ Len(kern) = 4 /\ quantizeCalls = 1

\* C3: with dithering enabled and a name that is not in the table, Quantize
\* is never called and no output file is created; when Quantize is called
\* with dithering enabled the kernel has been resolved from the table; with
\* dithering disabled the name is never looked up and never causes a failure.
C3_KernelResolvedFirst ==
    /\ (~noDither /\ ditherer \notin DOMAIN dither) =>
          (quantizeCalls = 0 /\ ~fileCreated)
    /\ (~noDither /\ quantizeCalls > 0) =>
          (kernName = ditherer /\ kern = dither[ditherer])
    /\ noDither => (~Resolved /\ "kernel" \notin failures)

C3_Witness ==
    /\ ~noDither /\ ditherer \notin DOMAIN dither
    /\ "kernel" \in failures /\ terminatedBy = "quantify-fatal"

\* C4: once the palette size has been checked, the run has been rejected for
\* it exactly when numColors < 1.
C4_RejectedIffBelowOne ==
    Validated => ("palette" \in failures <=> numColors < 1)

\* C5: after a failure to open or decode the input the run does not go on
\* into rendering, and Quantify is not entered with a nil source image.
C5_OpenFailurePropagates ==
    /\ "open" \in failures => ~RenderingStarted
    /\ ~(pc = "q_entry" /\ img = "nil")

\* C6: Quantify never terminates the process, and every failure it detects
\* is returned to its caller as an error.
C6_QuantifyReturnsErrors ==
    /\ terminatedBy # "quantify-fatal"
    /\ failures \cap {"kernel", "create", "encode"} # {} =>
          (qRet.returned /\ qRet.err)

\* C7: whenever Quantify has returned a non-nil error, the image it returned
\* is nil.
C7_NoImageWithError ==
    (qRet.returned /\ qRet.err) => qRet.image = "nil"

C7_Witness ==
    /\ qRet.returned /\ qRet.err /\ quant = "image" /\ "create" \in failures

\* C8: "Done" is reported only in runs without any failure, in which
\* quantization and output both succeeded.
C8_FailureIsTerminal ==
    doneReported =>
        /\ failures = {}
        /\ quantizeCalls = 1
        /\ fileCreated
        /\ qRet.returned /\ ~qRet.err

\* C9: in the kernel Quantify resolves all weights are non-negative and the
\* first row is one or more zero cells followed only by strictly positive
\* cells, so any zero cell of the first row taken as the current pixel has
\* only zero weights at and before it.
C9_NoBackwardDiffusion ==
    Resolved =>
        /\ \A r \in 1..Len(kern) : \A c \in 1..Len(kern[r]) : kern[r][c] >= 0
        /\ LET first == kern[1] IN
             /\ \E z \in 1..Len(first) :
                  \A j \in 1..Len(first) :
                      IF j <= z THEN first[j] = 0 ELSE first[j] > 0
             /\ \A a \in 1..Len(first) :
                  first[a] = 0 => \A j \in 1..a : first[j] = 0

C9_Witness ==
    /\ kernName = "Sierra-Lite" /\ kern[1][3] > 0 /\ quantizeCalls = 1

\* C10: the send on done is always received: while main waits to send the
\* goroutine is in its loop, a run that started rendering ends fatally or
\* reports "Done", the signal is sent exactly once on the way to "Done", and
\* the goroutine's step after receiving the signal stops the ticker, which
\* is never stopped otherwise.
C10_SendAlwaysReceived ==
    /\ [](sends <= 1)
    /\ [](doneReported => sends = 1)
    /\ [](pc = "send" => gpc \in {"select", "print"})
    /\ [](ticker = "stopped" => sends = 1)
    /\ [][(gpc = "stop" /\ gpc' # "stop") => ticker' = "stopped"]_vars
    /\ (pc = "send" ~> sends = 1)
    /\ (RenderingStarted ~>
           (doneReported \/ terminatedBy \in {"main-fatal", "quantify-fatal", "panic"}))

C10_Witness ==
    /\ doneReported /\ sends = 1 /\ ticker = "stopped" /\ gpc = "select"

====
